---- MODULE Spec2Model ----
(***************************************************************************)
(* A model of muspy's Music container (src/muspy/music.py): its            *)
(* constructor, reset, validate, remove_invalid, get_length, append, clip,  *)
(* sort, transpose and the `to` dispatch.                                   *)
(*                                                                         *)
(* A container is a record with the nine attributes of Music._attributes.  *)
(* Entities are records carrying a `type` (their Python class), the fields  *)
(* the container reads (`time`, `start`) and `ok`, the outcome of the       *)
(* entity's own validate().  The classes and the list helpers live in       *)
(* muspy.classes / muspy.utils, outside music.py; they are modelled from    *)
(* the specification's description of them.                                 *)
(***************************************************************************)
EXTENDS Integers, Sequences, FiniteSets, TLC

VARIABLES
    self,       \* the Music object: a record of its nine attributes
    last,       \* the last call on it: its name, argument and outcome
    trackLog,   \* ids of the Track objects appended / supplied since the last reset
    heap,       \* two containers by reference: the objects, by identity
    music,      \* two containers by reference: each container's attribute references
    own         \* two containers by reference: the last call and what preceded it

refVars == <<heap, music, own>>
vars == <<self, last, trackLog, heap, music, own>>

-----------------------------------------------------------------------------
(* Bounds of the model *)

MaxObjs == 2        \* objects held by the six entity/track lists together
MaxPitch == 62      \* transpose is explored while pitches stay in 60..MaxPitch
MaxItems == 3       \* by reference: elements a list object holds
MaxCalls == 3       \* by reference: constructor and method calls in a run

Times == {1, 2}     \* the time stamps callers use

-----------------------------------------------------------------------------
(* Optional arguments: Python's `None` default versus a supplied value *)

None == [given |-> FALSE]
Some(v) == [given |-> TRUE, val |-> v]

(* `x if x is not None else d` *)
OrDefault(a, d) == IF a.given THEN a.val ELSE d

-----------------------------------------------------------------------------
(* muspy.classes, as far as music.py uses them *)

MetaData(title, ok) == [type |-> "MetaData", title |-> title, ok |-> ok]
TimingInfo(resolution, ok) == [type |-> "TimingInfo", resolution |-> resolution, ok |-> ok]

(* MetaData() and TimingInfo() with no arguments; a default-constructed
   container validates. *)
DefaultMetaData == MetaData("", TRUE)
DefaultTimingInfo == TimingInfo(0, TRUE)

TimeSignature(start, time, ok) ==
    [type |-> "TimeSignature", start |-> start, time |-> time, ok |-> ok]
Timed(cls, time, ok) == [type |-> cls, time |-> time, ok |-> ok]
Note(time, end, pitch, velocity, ok) ==
    [type |-> "Note", time |-> time, end |-> end, pitch |-> pitch,
     velocity |-> velocity, ok |-> ok]
Track(id, notes) == [type |-> "Track", id |-> id, notes |-> notes]

EntityClasses == {"TimeSignature", "KeySignature", "Tempo", "Lyric", "Annotation"}
BaseClasses == EntityClasses \cup {"Track", "Note", "MetaData", "TimingInfo"}

(* isinstance(obj, cls); the classes are mutually exclusive *)
IsInstance(obj, cls) == obj.type = cls

(* obj.validate() returns normally; a Track validates when its notes do *)
IsValid(obj) ==
    IF obj.type = "Track" THEN \A i \in 1..Len(obj.notes) : obj.notes[i].ok
    ELSE obj.type \in BaseClasses /\ obj.ok

-----------------------------------------------------------------------------
(* Sequence helpers *)

Max2(a, b) == IF a >= b THEN a ELSE b
Min2(a, b) == IF a <= b THEN a ELSE b

RECURSIVE MaxOf(_)
(* Python's max(list) on a non-empty list *)
MaxOf(s) == IF Len(s) = 1 THEN s[1] ELSE Max2(s[1], MaxOf(Tail(s)))

RECURSIVE Filter(_, _)
Filter(s, keep) ==
    IF s = <<>> THEN <<>>
    ELSE IF s[1] \in keep THEN <<s[1]>> \o Filter(Tail(s), keep)
         ELSE Filter(Tail(s), keep)

Range(s) == {s[i] : i \in 1..Len(s)}
Front(s) == SubSeq(s, 1, Len(s) - 1)

(* x placed behind every element whose key is <= x's key *)
RECURSIVE InsertByKey(_, _, _)
InsertByKey(x, s, field) ==
    IF s = <<>> THEN <<x>>
    ELSE IF s[Len(s)][field] <= x[field] THEN Append(s, x)
         ELSE Append(InsertByKey(x, Front(s), field), s[Len(s)])

RECURSIVE ListSort(_, _)
(* list.sort(key=lambda x: x.<field>): ascending and stable *)
ListSort(s, field) ==
    IF s = <<>> THEN <<>>
    ELSE InsertByKey(s[Len(s)], ListSort(Front(s), field), field)

-----------------------------------------------------------------------------
(* muspy.utils *)

(* validate_list(list_) returns normally: every element is an entity whose
   validate() succeeds.  The helper receives the list alone. *)
ValidateListOk(list) == \A i \in 1..Len(list) : IsValid(list[i])

(* remove_invalid_from_list(list_): a new list of the elements that validate *)
RemoveInvalidFromList(list) == Filter(list, {x \in Range(list) : IsValid(x)})

-----------------------------------------------------------------------------
(* muspy.classes.Track, as far as Music calls it *)

TrackRemoveInvalid(track) == [track EXCEPT !.notes = RemoveInvalidFromList(@)]

TrackClip(track, lower, upper) ==
    [track EXCEPT !.notes =
        [i \in 1..Len(@) |->
            [@[i] EXCEPT !.velocity = Max2(lower, Min2(upper, @))]]]

TrackSort(track) == [track EXCEPT !.notes = ListSort(@, "time")]

TrackTranspose(track, semitone) ==
    [track EXCEPT !.notes = [i \in 1..Len(@) |-> [@[i] EXCEPT !.pitch = @ + semitone]]]

(* track.get_active_length(is_sorted): the end of the track's last note *)
TrackActiveLength(track, is_sorted) ==
    MaxOf([i \in 1..Len(track.notes) |-> track.notes[i].end])

-----------------------------------------------------------------------------
(* Music *)

Attributes ==
    {"timing", "time_signatures", "key_signatures", "tempos", "downbeats",
     "lyrics", "annotations", "tracks", "meta_data"}

EntityLists == {"time_signatures", "key_signatures", "tempos", "lyrics", "annotations"}

NoArgs ==
    [meta_data |-> None, timing_info |-> None, time_signatures |-> None,
     key_signatures |-> None, tempos |-> None, downbeats |-> None,
     lyrics |-> None, annotations |-> None, tracks |-> None]

(* Music.__init__ *)
MusicInit(args) ==
    [meta_data       |-> OrDefault(args.meta_data, DefaultMetaData),
     timing          |-> OrDefault(args.timing_info, DefaultTimingInfo),
     time_signatures |-> OrDefault(args.time_signatures, <<>>),
     key_signatures  |-> OrDefault(args.key_signatures, <<>>),
     tempos          |-> OrDefault(args.tempos, <<>>),
     downbeats       |-> OrDefault(args.downbeats, <<>>),
     lyrics          |-> OrDefault(args.lyrics, <<>>),
     annotations     |-> OrDefault(args.annotations, <<>>),
     tracks          |-> OrDefault(args.tracks, <<>>)]

(* A reset that also clears downbeats *)
MusicResetAll(m) == MusicInit(NoArgs)

(* Music.reset *)
MusicReset(m) ==
    [m EXCEPT !.meta_data = DefaultMetaData,
              !.timing = DefaultTimingInfo,
              !.time_signatures = <<>>,
              !.key_signatures = <<>>,
              !.tempos = <<>>,
              !.lyrics = <<>>,
              !.annotations = <<>>,
              !.tracks = <<>>]

(* The validate of the attribute-by-attribute order: meta_data is fully
   checked before timing is looked at *)
MusicValidateByAttribute(m) ==
    IF ~IsInstance(m.meta_data, "MetaData") THEN "TypeError:meta_data"
    ELSE IF ~IsValid(m.meta_data) THEN "Invalid:meta_data"
    ELSE IF ~IsInstance(m.timing, "TimingInfo") THEN "TypeError:timing"
    ELSE IF ~IsValid(m.timing) THEN "Invalid:timing"
    ELSE IF ~ValidateListOk(m.time_signatures) THEN "Invalid:time_signatures"
    ELSE IF ~ValidateListOk(m.key_signatures) THEN "Invalid:key_signatures"
    ELSE IF ~ValidateListOk(m.tempos) THEN "Invalid:tempos"
    ELSE IF ~ValidateListOk(m.lyrics) THEN "Invalid:lyrics"
    ELSE IF ~ValidateListOk(m.annotations) THEN "Invalid:annotations"
    ELSE IF ~ValidateListOk(m.tracks) THEN "Invalid:tracks"
    ELSE "ok"

(* Music.validate: "ok", or the check that raised *)
MusicValidate(m) ==
    IF ~IsInstance(m.meta_data, "MetaData") THEN "TypeError:meta_data"
    ELSE IF ~IsInstance(m.timing, "TimingInfo") THEN "TypeError:timing"
    ELSE IF ~IsValid(m.meta_data) THEN "Invalid:meta_data"
    ELSE IF ~IsValid(m.timing) THEN "Invalid:timing"
    ELSE IF ~ValidateListOk(m.time_signatures) THEN "Invalid:time_signatures"
    ELSE IF ~ValidateListOk(m.key_signatures) THEN "Invalid:key_signatures"
    ELSE IF ~ValidateListOk(m.tempos) THEN "Invalid:tempos"
    ELSE IF ~ValidateListOk(m.lyrics) THEN "Invalid:lyrics"
    ELSE IF ~ValidateListOk(m.annotations) THEN "Invalid:annotations"
    ELSE IF ~ValidateListOk(m.tracks) THEN "Invalid:tracks"
    ELSE "ok"

(* A remove_invalid that forgets the lyrics *)
MusicRemoveInvalidSkipLyrics(m) ==
    [m EXCEPT !.time_signatures = RemoveInvalidFromList(@),
              !.key_signatures = RemoveInvalidFromList(@),
              !.tempos = RemoveInvalidFromList(@),
              !.annotations = RemoveInvalidFromList(@),
              !.tracks = [i \in 1..Len(@) |-> TrackRemoveInvalid(@[i])]]

(* A remove_invalid that prunes the track list like the other lists *)
MusicRemoveInvalidDropTracks(m) ==
    [m EXCEPT !.time_signatures = RemoveInvalidFromList(@),
              !.key_signatures = RemoveInvalidFromList(@),
              !.tempos = RemoveInvalidFromList(@),
              !.lyrics = RemoveInvalidFromList(@),
              !.annotations = RemoveInvalidFromList(@),
              !.tracks = RemoveInvalidFromList(@)]

(* Music.remove_invalid *)
MusicRemoveInvalid(m) ==
    [m EXCEPT !.time_signatures = RemoveInvalidFromList(@),
              !.key_signatures = RemoveInvalidFromList(@),
              !.tempos = RemoveInvalidFromList(@),
              !.lyrics = RemoveInvalidFromList(@),
              !.annotations = RemoveInvalidFromList(@),
              !.tracks = [i \in 1..Len(@) |-> TrackRemoveInvalid(@[i])]]

(* An append that files a Lyric under annotations *)
MusicAppendMisrouted(m, obj) ==
    IF IsInstance(obj, "TimeSignature")
        THEN [self |-> [m EXCEPT !.time_signatures = Append(@, obj)], exc |-> "none"]
    ELSE IF IsInstance(obj, "KeySignature")
        THEN [self |-> [m EXCEPT !.key_signatures = Append(@, obj)], exc |-> "none"]
    ELSE IF IsInstance(obj, "Tempo")
        THEN [self |-> [m EXCEPT !.tempos = Append(@, obj)], exc |-> "none"]
    ELSE IF IsInstance(obj, "Lyric") \/ IsInstance(obj, "Annotation")
        THEN [self |-> [m EXCEPT !.annotations = Append(@, obj)], exc |-> "none"]
    ELSE IF IsInstance(obj, "Track")
        THEN [self |-> [m EXCEPT !.tracks = Append(@, obj)], exc |-> "none"]
    ELSE [self |-> m, exc |-> "TypeError"]

(* Music.append *)
MusicAppend(m, obj) ==
    IF IsInstance(obj, "TimeSignature")
        THEN [self |-> [m EXCEPT !.time_signatures = Append(@, obj)], exc |-> "none"]
    ELSE IF IsInstance(obj, "KeySignature")
        THEN [self |-> [m EXCEPT !.key_signatures = Append(@, obj)], exc |-> "none"]
    ELSE IF IsInstance(obj, "Tempo")
        THEN [self |-> [m EXCEPT !.tempos = Append(@, obj)], exc |-> "none"]
    ELSE IF IsInstance(obj, "Lyric")
        THEN [self |-> [m EXCEPT !.lyrics = Append(@, obj)], exc |-> "none"]
    ELSE IF IsInstance(obj, "Annotation")
        THEN [self |-> [m EXCEPT !.annotations = Append(@, obj)], exc |-> "none"]
    ELSE IF IsInstance(obj, "Track")
        THEN [self |-> [m EXCEPT !.tracks = Append(@, obj)], exc |-> "none"]
    ELSE [self |-> m, exc |-> "TypeError"]

(* The isinstance chain of append(), as a table *)
AppendTypes == {"TimeSignature", "KeySignature", "Tempo", "Lyric", "Annotation", "Track"}
AppendList(cls) ==
    CASE cls = "TimeSignature" -> "time_signatures"
      [] cls = "KeySignature" -> "key_signatures"
      [] cls = "Tempo" -> "tempos"
      [] cls = "Lyric" -> "lyrics"
      [] cls = "Annotation" -> "annotations"
      [] cls = "Track" -> "tracks"

(* Music.clip *)
MusicClip(m, lower, upper) ==
    [m EXCEPT !.tracks = [i \in 1..Len(@) |-> TrackClip(@[i], lower, upper)]]

(* A sort that orders time_signatures by `time`, like the other four *)
MusicSortByTime(m) ==
    [m EXCEPT !.time_signatures = ListSort(@, "time"),
              !.key_signatures = ListSort(@, "time"),
              !.tempos = ListSort(@, "time"),
              !.lyrics = ListSort(@, "time"),
              !.annotations = ListSort(@, "time"),
              !.tracks = [i \in 1..Len(@) |-> TrackSort(@[i])]]

(* Music.sort *)
MusicSort(m) ==
    [m EXCEPT !.time_signatures = ListSort(@, "start"),
              !.key_signatures = ListSort(@, "time"),
              !.tempos = ListSort(@, "time"),
              !.lyrics = ListSort(@, "time"),
              !.annotations = ListSort(@, "time"),
              !.tracks = [i \in 1..Len(@) |-> TrackSort(@[i])]]

(* Music.transpose *)
MusicTranspose(m, semitone) ==
    [m EXCEPT !.tracks = [i \in 1..Len(@) |-> TrackTranspose(@[i], semitone)]]

Returned(v) == [exc |-> "none", ret |-> v]
Raised(e) == [exc |-> e, ret |-> -1]

(* Music.get_active_length: max() of an empty list raises ValueError *)
MusicGetActiveLength(m, is_sorted) ==
    IF m.tracks = <<>> THEN Raised("ValueError")
    ELSE IF \E i \in 1..Len(m.tracks) : m.tracks[i].notes = <<>> THEN Raised("ValueError")
    ELSE Returned(MaxOf([i \in 1..Len(m.tracks) |->
                            TrackActiveLength(m.tracks[i], is_sorted)]))

Times_(s) == [i \in 1..Len(s) |-> s[i].time]

(* Music.get_length: the arguments of max() are evaluated left to right *)
MusicGetLength(m, is_sorted) ==
    LET active == MusicGetActiveLength(m, is_sorted)
        lists == <<m.time_signatures, m.key_signatures, m.tempos, m.lyrics,
                   m.annotations>>
    IN  IF active.exc # "none" THEN active
        ELSE IF \E i \in 1..5 : lists[i] = <<>>
            THEN Raised(IF is_sorted THEN "IndexError" ELSE "ValueError")
        ELSE IF is_sorted
            THEN Returned(MaxOf(<<active.ret>> \o
                    [i \in 1..5 |-> lists[i][Len(lists[i])].time]))
        ELSE Returned(MaxOf(<<active.ret>> \o
                    [i \in 1..5 |-> MaxOf(Times_(lists[i]))]))

-----------------------------------------------------------------------------
(* Strings, as sequences of one-character strings *)

UpperCase ==
    <<"A", "B", "C", "D", "E", "F", "G", "H", "I", "J", "K", "L", "M",
      "N", "O", "P", "Q", "R", "S", "T", "U", "V", "W", "X", "Y", "Z">>
LowerCase ==
    <<"a", "b", "c", "d", "e", "f", "g", "h", "i", "j", "k", "l", "m",
      "n", "o", "p", "q", "r", "s", "t", "u", "v", "w", "x", "y", "z">>

LowerChar(c) ==
    IF \E i \in 1..26 : UpperCase[i] = c
    THEN LowerCase[CHOOSE i \in 1..26 : UpperCase[i] = c]
    ELSE c
UpperChar(c) ==
    IF \E i \in 1..26 : LowerCase[i] = c
    THEN UpperCase[CHOOSE i \in 1..26 : LowerCase[i] = c]
    ELSE c

(* str.lower() *)
Lower(s) == [i \in 1..Len(s) |-> LowerChar(s[i])]
Upper(s) == [i \in 1..Len(s) |-> UpperChar(s[i])]

(* `t in s` for two strings: t occurs in s as a substring *)
InString(t, s) ==
    \E i \in 0..(Len(s) - Len(t)) : SubSeq(s, i + 1, i + Len(t)) = t

(* `t in tuple`: t equals one of the members *)
InTuple(t, members) == t \in members

S_event == <<"e", "v", "e", "n", "t">>
S_event_based == <<"e", "v", "e", "n", "t", "-", "b", "a", "s", "e", "d">>
S_note == <<"n", "o", "t", "e">>
S_note_based == <<"n", "o", "t", "e", "-", "b", "a", "s", "e", "d">>
S_pianoroll == <<"p", "i", "a", "n", "o", "r", "o", "l", "l">>
S_piano_roll == <<"p", "i", "a", "n", "o", "-", "r", "o", "l", "l">>
S_pretty_midi == <<"p", "r", "e", "t", "t", "y", "_", "m", "i", "d", "i">>
S_pypianoroll == <<"p", "y", "p", "i", "a", "n", "o", "r", "o", "l", "l">>
S_unsupported == <<"u", "n", "s", "u", "p", "p", "o", "r", "t", "e", "d">>

ToResult(called, exc, named) == [called |-> called, exc |-> exc, named |-> named]

(* Music.to: the converter called, or the ValueError and the value its
   message names.  ("pretty_midi") and ("pypianoroll") are parenthesised
   strings, so `in` is the substring test. *)
MusicTo(m, target) ==
    IF InTuple(Lower(target), {S_event, S_event_based, S_note, S_note_based,
                               S_pianoroll, S_piano_roll})
        THEN ToResult("to_representation", "none", <<>>)
    ELSE IF InString(Lower(target), S_pretty_midi)
        THEN ToResult("to_pretty_midi", "none", <<>>)
    ELSE IF InString(Lower(target), S_pypianoroll)
        THEN ToResult("to_pypianoroll", "none", <<>>)
    ELSE ToResult("none", "ValueError", target)

-----------------------------------------------------------------------------
(* What callers pass in *)

(* Valid entities at every time stamp and an invalid one *)
TimedInputs(cls) == {Timed(cls, t, TRUE) : t \in Times} \cup {Timed(cls, 1, FALSE)}

(* start and time of a time signature are independent fields *)
TimeSignatureInputs ==
    {TimeSignature(s, 3 - s, TRUE) : s \in Times} \cup {TimeSignature(1, 1, FALSE)}

EntityInputs ==
    TimeSignatureInputs \cup TimedInputs("KeySignature") \cup TimedInputs("Tempo")
        \cup TimedInputs("Lyric") \cup TimedInputs("Annotation")

NoteLists ==
    {<<>>,
     <<Note(2, 3, 60, 200, TRUE), Note(1, 2, 61, 64, FALSE)>>}

(* Objects append() has no list for *)
OtherInputs == {Note(1, 2, 60, 64, TRUE), [type |-> "int", value |-> 5]}

ClipArgs == {<<0, 127>>, <<64, 64>>}
Semitones == {-1, 1}

TrackIds(tracks) == [i \in 1..Len(tracks) |-> tracks[i].id]

(* A newly constructed Track is an object of its own *)
FreshId(tracks) ==
    CHOOSE n \in 1..(Len(tracks) + 1) :
        /\ n \notin Range(TrackIds(tracks))
        /\ \A k \in 1..(n - 1) : k \in Range(TrackIds(tracks))

Total(m) ==
    Len(m.time_signatures) + Len(m.key_signatures) + Len(m.tempos)
        + Len(m.lyrics) + Len(m.annotations) + Len(m.tracks)

(* The record of a call that left the attributes `after` *)
Call(op, arg, exc, after) ==
    [op |-> op, arg |-> arg, exc |-> exc, changed |-> (after # self)]

-----------------------------------------------------------------------------
(* The container under a sequence of calls *)

(* The by-reference variables, where no second container is looked at *)
NoRefs ==
    /\ heap = <<>>
    /\ music = <<>>
    /\ own = <<>>

CtorArgs ==
    {NoArgs,
     [NoArgs EXCEPT !.meta_data = Some(MetaData("song", TRUE)),
                    !.timing_info = Some(TimingInfo(24, TRUE)),
                    !.downbeats = Some(<<3, 1>>),
                    !.tracks = Some(<<Track(1, <<Note(1, 2, 60, 64, TRUE)>>)>>)]}

Init ==
    \E args \in CtorArgs :
        /\ self = MusicInit(args)
        /\ last = [op |-> "__init__", arg |-> args, exc |-> "none", changed |-> FALSE]
        /\ trackLog = TrackIds(MusicInit(args).tracks)
        /\ NoRefs

DoReset ==
    /\ self' = MusicReset(self)
    /\ last' = Call("reset", <<>>, "none", MusicReset(self))
    /\ trackLog' = <<>>
    /\ UNCHANGED refVars

DoValidate ==
    /\ self' = self
    /\ last' = Call("validate", <<>>, MusicValidate(self), self)
    /\ UNCHANGED <<trackLog, refVars>>

DoRemoveInvalid ==
    /\ self' = MusicRemoveInvalid(self)
    /\ last' = Call("remove_invalid", <<>>, "none", MusicRemoveInvalid(self))
    /\ UNCHANGED <<trackLog, refVars>>

DoAppend ==
    \E obj \in EntityInputs \cup OtherInputs
                \cup {Track(FreshId(self.tracks), ns) : ns \in NoteLists} :
        LET r == MusicAppend(self, obj) IN
        /\ r.exc = "none" => Total(self) < MaxObjs
        /\ self' = r.self
        /\ last' = Call("append", obj, r.exc, r.self)
        /\ trackLog' = IF IsInstance(obj, "Track") THEN Append(trackLog, obj.id)
                       ELSE trackLog
        /\ UNCHANGED refVars

DoClip ==
    \E a \in ClipArgs :
        /\ self' = MusicClip(self, a[1], a[2])
        /\ last' = Call("clip", a, "none", MusicClip(self, a[1], a[2]))
        /\ UNCHANGED <<trackLog, refVars>>

DoSort ==
    /\ self' = MusicSort(self)
    /\ last' = Call("sort", <<>>, "none", MusicSort(self))
    /\ UNCHANGED <<trackLog, refVars>>

DoTranspose ==
    \E semitone \in Semitones :
        /\ \A i \in 1..Len(self.tracks) : \A j \in 1..Len(self.tracks[i].notes) :
              self.tracks[i].notes[j].pitch + semitone \in 60..MaxPitch
        /\ self' = MusicTranspose(self, semitone)
        /\ last' = Call("transpose", semitone, "none", MusicTranspose(self, semitone))
        /\ UNCHANGED <<trackLog, refVars>>

Next ==
    \/ DoReset
    \/ DoValidate
    \/ DoRemoveInvalid
    \/ DoAppend
    \/ DoClip
    \/ DoSort
    \/ DoTranspose

Spec == Init /\ [][Next]_vars

-----------------------------------------------------------------------------
(* Validation of containers built from whatever the caller supplied *)

BadListArgs(cls, other) ==
    {None,
     Some(<<Timed(cls, 1, TRUE)>>),
     Some(<<Timed(other, 1, TRUE)>>),
     Some(<<Timed(cls, 1, TRUE), Timed(cls, 2, FALSE)>>)}

ValCtorArgs ==
    {[meta_data |-> md, timing_info |-> ti, time_signatures |-> ts,
      key_signatures |-> ks, tempos |-> te, downbeats |-> db, lyrics |-> ly,
      annotations |-> an, tracks |-> tr] :
        md \in {None, Some(MetaData("song", TRUE)), Some(MetaData("song", FALSE)),
                Some(TimingInfo(24, TRUE))},
        ti \in {None, Some(TimingInfo(24, TRUE)), Some(TimingInfo(24, FALSE)),
                Some(MetaData("song", TRUE))},
        ts \in {None, Some(<<TimeSignature(1, 1, TRUE)>>),
                Some(<<Timed("Tempo", 1, TRUE)>>),
                Some(<<TimeSignature(1, 1, TRUE), TimeSignature(2, 2, FALSE)>>)},
        ks \in {None, Some(<<Timed("KeySignature", 1, FALSE)>>)},
        te \in BadListArgs("Tempo", "Lyric") \cup {Some(<<[type |-> "int", value |-> 5]>>)},
        db \in {None, Some(<<"x">>)},
        ly \in {None, Some(<<Timed("Lyric", 1, FALSE)>>)},
        an \in {None, Some(<<Timed("Annotation", 1, TRUE), Timed("Annotation", 2, FALSE)>>)},
        tr \in {None, Some(<<Track(1, <<Note(1, 2, 60, 64, TRUE)>>)>>),
                Some(<<Track(1, <<Note(1, 2, 60, 64, FALSE)>>)>>)}}

ValInit ==
    \E args \in ValCtorArgs :
        /\ self = MusicInit(args)
        /\ last = [op |-> "__init__", arg |-> args, exc |-> "none", changed |-> FALSE]
        /\ trackLog = TrackIds(MusicInit(args).tracks)
        /\ NoRefs

ValNext ==
    \/ DoValidate
    \/ DoRemoveInvalid
    \/ DoReset

ValSpec == ValInit /\ [][ValNext]_vars

-----------------------------------------------------------------------------
(* Length queries on fully populated containers *)

TimedLists(cls) ==
    {<<Timed(cls, 1, TRUE)>>,
     <<Timed(cls, 1, TRUE), Timed(cls, 2, TRUE)>>,
     <<Timed(cls, 2, TRUE), Timed(cls, 1, TRUE)>>}

LenCtorArgs ==
    {[meta_data |-> None, timing_info |-> None, time_signatures |-> Some(ts),
      key_signatures |-> Some(ks), tempos |-> Some(te), downbeats |-> None,
      lyrics |-> Some(ly), annotations |-> Some(an), tracks |-> Some(tr)] :
        ts \in {<<TimeSignature(1, 1, TRUE)>>,
                <<TimeSignature(1, 2, TRUE), TimeSignature(2, 1, TRUE)>>,
                <<TimeSignature(2, 1, TRUE), TimeSignature(1, 2, TRUE)>>,
                <<TimeSignature(2, 2, TRUE), TimeSignature(1, 1, TRUE)>>},
        ks \in TimedLists("KeySignature"),
        te \in TimedLists("Tempo"),
        ly \in TimedLists("Lyric"),
        an \in TimedLists("Annotation"),
        tr \in {<<Track(1, <<Note(1, 1, 60, 64, TRUE)>>)>>,
                <<Track(1, <<Note(2, 3, 60, 64, TRUE), Note(1, 2, 61, 64, TRUE)>>)>>}}

LenInit ==
    \E args \in LenCtorArgs :
        /\ self = MusicInit(args)
        /\ last = [op |-> "__init__", arg |-> args, exc |-> "none", changed |-> FALSE]
        /\ trackLog = TrackIds(MusicInit(args).tracks)
        /\ NoRefs

DoGetLength ==
    \E is_sorted \in BOOLEAN :
        LET r == MusicGetLength(self, is_sorted) IN
        /\ self' = self
        /\ last' = [op |-> "get_length", arg |-> is_sorted, exc |-> r.exc,
                    ret |-> r.ret, changed |-> FALSE]
        /\ UNCHANGED <<trackLog, refVars>>

LenNext ==
    \/ DoGetLength
    \/ DoSort

LenSpec == LenInit /\ [][LenNext]_vars

-----------------------------------------------------------------------------
(* The dispatch of to() *)

SupportedTargets ==
    {S_event, S_event_based, S_note, S_note_based, S_pianoroll, S_piano_roll,
     S_pretty_midi, S_pypianoroll}

Substrings(s) ==
    {SubSeq(s, i, j) : i \in 1..(Len(s) + 1), j \in 0..Len(s)}

Capitalized(s) == IF s = <<>> THEN s ELSE <<UpperChar(s[1])>> \o Tail(s)

(* The selectors, their substrings, their upper-case and capitalised
   spellings, selectors with a character in front or behind, "unsupported" *)
Targets ==
    LET subs == UNION {Substrings(s) : s \in SupportedTargets} IN
        subs \cup {Upper(s) : s \in SupportedTargets}
             \cup {Capitalized(s) : s \in SupportedTargets}
             \cup {<<"x">> \o s : s \in SupportedTargets}
             \cup {s \o <<"2">> : s \in SupportedTargets}
             \cup {S_unsupported}

DoTo ==
    \E target \in Targets :
        LET r == MusicTo(self, target) IN
        /\ self' = self
        /\ last' = [op |-> "to", arg |-> target, exc |-> r.exc,
                    called |-> r.called, named |-> r.named, changed |-> FALSE]
        /\ UNCHANGED <<trackLog, refVars>>

ToNext == DoTo

ToSpec == Init /\ [][ToNext]_vars

-----------------------------------------------------------------------------
(* Two containers by reference.  Python binds names to objects: the heap
   maps an object's identity to its value, a list object holds the
   identities of its elements, and a container's attribute holds the
   identity of a list or of a MetaData / TimingInfo object. *)

Names == {"a", "b"}
Other(c) == IF c = "a" THEN "b" ELSE "a"

List(items) == [type |-> "list", items |-> items]

(* What the caller holds before any container exists: a list of two tempos,
   a list of one track, a third tempo and a MetaData *)
CallerHeap ==
    [i \in 1..7 |->
        CASE i = 1 -> List(<<3, 4>>)
          [] i = 2 -> List(<<5>>)
          [] i = 3 -> Timed("Tempo", 2, TRUE)
          [] i = 4 -> Timed("Tempo", 1, FALSE)
          [] i = 5 -> Track(5, <<Note(2, 3, 60, 200, TRUE), Note(1, 2, 61, 64, FALSE)>>)
          [] i = 6 -> Timed("Tempo", 1, TRUE)
          [] i = 7 -> MetaData("song", TRUE)]

CallerIds == DOMAIN CallerHeap

(* The identity of a newly created object: one no live object has *)
NewId(h) ==
    LET free == (1..(Cardinality(DOMAIN h) + 1)) \ DOMAIN h
    IN  CHOOSE n \in free : \A k \in free : n <= k

Alloc(h, o) ==
    LET n == NewId(h) IN
    [heap |-> [i \in DOMAIN h \cup {n} |-> IF i = n THEN o ELSE h[i]], id |-> n]

(* self.<attr> = <a new object>, for a sequence of [attr, obj] *)
RECURSIVE AssignNew(_, _, _)
AssignNew(h, m, assigns) ==
    IF assigns = <<>> THEN [heap |-> h, obj |-> m]
    ELSE LET a == Alloc(h, assigns[1].obj) IN
         AssignNew(a.heap, [m EXCEPT ![assigns[1].attr] = a.id], Tail(assigns))

ParamOrder ==
    <<"meta_data", "timing_info", "time_signatures", "key_signatures", "tempos",
      "downbeats", "lyrics", "annotations", "tracks">>

AttrOf(param) == IF param = "timing_info" THEN "timing" ELSE param

DefaultObject(param) ==
    CASE param = "meta_data" -> DefaultMetaData
      [] param = "timing_info" -> DefaultTimingInfo
      [] OTHER -> List(<<>>)

RECURSIVE Defaults(_, _)
(* The [attr, obj] of the parameters from the k-th on that were not given *)
Defaults(args, k) ==
    IF k > Len(ParamOrder) THEN <<>>
    ELSE IF args[ParamOrder[k]].given THEN Defaults(args, k + 1)
    ELSE <<[attr |-> AttrOf(ParamOrder[k]), obj |-> DefaultObject(ParamOrder[k])]>>
            \o Defaults(args, k + 1)

Supplied(args) ==
    [a \in Attributes |->
        LET p == IF a = "timing" THEN "timing_info" ELSE a IN
        IF args[p].given THEN args[p].val ELSE 0]

(* An __init__ whose list parameters default to `[]` in the signature: one
   list object per parameter, made once and used by every call *)
MusicInitRefsSharedDefaults(h, args) ==
    LET shared == {100 + k : k \in {k \in 3..9 : ~args[ParamOrder[k]].given}}
        h2 == [i \in DOMAIN h \cup shared |->
                 IF i \in DOMAIN h THEN h[i] ELSE List(<<>>)]
        m2 == [a \in Attributes |->
                 IF \E k \in 3..9 : AttrOf(ParamOrder[k]) = a /\ ~args[ParamOrder[k]].given
                 THEN 100 + (CHOOSE k \in 3..9 : AttrOf(ParamOrder[k]) = a)
                 ELSE Supplied(args)[a]]
    IN  AssignNew(h2, m2,
            (IF args.meta_data.given THEN <<>>
             ELSE <<[attr |-> "meta_data", obj |-> DefaultMetaData]>>)
            \o (IF args.timing_info.given THEN <<>>
                ELSE <<[attr |-> "timing", obj |-> DefaultTimingInfo]>>))

(* Music.__init__: a given argument is stored as it is, an omitted one is
   replaced by a new object *)
MusicInitRefs(h, args) == AssignNew(h, Supplied(args), Defaults(args, 1))

(* Music.reset *)
MusicResetRefs(h, m) ==
    AssignNew(h, m,
        <<[attr |-> "meta_data", obj |-> DefaultMetaData],
          [attr |-> "timing", obj |-> DefaultTimingInfo],
          [attr |-> "time_signatures", obj |-> List(<<>>)],
          [attr |-> "key_signatures", obj |-> List(<<>>)],
          [attr |-> "tempos", obj |-> List(<<>>)],
          [attr |-> "lyrics", obj |-> List(<<>>)],
          [attr |-> "annotations", obj |-> List(<<>>)],
          [attr |-> "tracks", obj |-> List(<<>>)]>>)

(* The objects of a list *)
Items(h, id) == h[id].items

(* remove_invalid_from_list on a list object: a new list *)
ValidItems(h, id) == List(Filter(Items(h, id), {i \in Range(Items(h, id)) : IsValid(h[i])}))

(* The objects `for track in self.tracks` visits; each changes in place *)
TrackObjects(h, m) == Range(Items(h, m.tracks))

(* Music.remove_invalid *)
MusicRemoveInvalidRefs(h, m) ==
    LET r == AssignNew(h, m,
                <<[attr |-> "time_signatures", obj |-> ValidItems(h, m.time_signatures)],
                  [attr |-> "key_signatures", obj |-> ValidItems(h, m.key_signatures)],
                  [attr |-> "tempos", obj |-> ValidItems(h, m.tempos)],
                  [attr |-> "lyrics", obj |-> ValidItems(h, m.lyrics)],
                  [attr |-> "annotations", obj |-> ValidItems(h, m.annotations)]>>)
    IN  [heap |-> [i \in DOMAIN r.heap |->
                     IF i \in TrackObjects(r.heap, r.obj)
                     THEN TrackRemoveInvalid(r.heap[i]) ELSE r.heap[i]],
         obj |-> r.obj]

(* Music.append: the object itself is put into the list *)
MusicAppendRefs(h, m, o) ==
    IF h[o].type \in AppendTypes
    THEN [heap |-> [h EXCEPT ![m[AppendList(h[o].type)]].items = Append(@, o)],
          obj |-> m, exc |-> "none"]
    ELSE [heap |-> h, obj |-> m, exc |-> "TypeError"]

(* list.sort(key=...) on a list object: its elements, reordered in place *)
SortedItems(h, id, field) ==
    LET keyed == [k \in 1..Len(Items(h, id)) |->
                    [id |-> Items(h, id)[k], key |-> h[Items(h, id)[k]][field]]]
        sorted == ListSort(keyed, "key")
    IN  [k \in 1..Len(sorted) |-> sorted[k].id]

RECURSIVE SortLists(_, _, _)
SortLists(h, m, attrs) ==
    IF attrs = <<>> THEN h
    ELSE SortLists(
            [h EXCEPT ![m[attrs[1]]].items =
                SortedItems(h, m[attrs[1]],
                            IF attrs[1] = "time_signatures" THEN "start" ELSE "time")],
            m, Tail(attrs))

(* Music.sort *)
MusicSortRefs(h, m) ==
    LET h2 == SortLists(h, m, <<"time_signatures", "key_signatures", "tempos",
                                "lyrics", "annotations">>)
    IN  [heap |-> [i \in DOMAIN h2 |->
                     IF i \in TrackObjects(h2, m) THEN TrackSort(h2[i]) ELSE h2[i]],
         obj |-> m]

(* Music.clip *)
MusicClipRefs(h, m, lower, upper) ==
    [heap |-> [i \in DOMAIN h |->
                 IF i \in TrackObjects(h, m) THEN TrackClip(h[i], lower, upper)
                 ELSE h[i]],
     obj |-> m]

(* What a container shows: every attribute, dereferenced *)
View(h, m) ==
    [a \in Attributes |->
        IF a \in {"meta_data", "timing"} THEN h[m[a]]
        ELSE [k \in 1..Len(Items(h, m[a])) |-> h[Items(h, m[a])[k]]]]

(* The objects a container references: its attribute values and the
   elements of its lists *)
Refs(h, m) ==
    {m[a] : a \in Attributes}
        \cup UNION {Range(Items(h, m[a])) : a \in Attributes \ {"meta_data", "timing"}}

Built(c) == music[c].built
RefsOf(c) == IF Built(c) THEN Refs(heap, music[c].at) ELSE {}
ViewOf(c) == IF Built(c) THEN View(heap, music[c].at) ELSE <<>>

(* Objects nothing references any more are gone *)
Live(h, mu) ==
    [i \in (DOMAIN h) \cap
           (CallerIds \cup UNION {IF mu[c].built THEN Refs(h, mu[c].at) ELSE {} : c \in Names})
        |-> h[i]]

Record(op, c, arg, exc, given) ==
    [op |-> op, c |-> c, arg |-> arg, exc |-> exc, n |-> own.n + 1, given |-> given]

RefInit ==
    /\ heap = CallerHeap
    /\ music = [c \in Names |-> [built |-> FALSE, at |-> <<>>]]
    /\ own = [op |-> "none", c |-> "a", arg |-> <<>>, exc |-> "none", n |-> 0,
              given |-> {}]
    /\ self = MusicInit(NoArgs)
    /\ last = [op |-> "__init__", arg |-> NoArgs, exc |-> "none", changed |-> FALSE]
    /\ trackLog = <<>>

(* After a call on container c that left heap h and attributes m *)
Step(c, h, m, rec) ==
    LET mu == [music EXCEPT ![c] = [built |-> TRUE, at |-> m]] IN
    /\ own.n < MaxCalls
    /\ music' = mu
    /\ heap' = Live(h, mu)
    /\ own' = [rec EXCEPT !.given = @ \cap DOMAIN Live(h, mu)]
    /\ UNCHANGED <<self, last, trackLog>>

(* c = Music(meta_data=..., tempos=..., tracks=...): the caller passes
   what it holds, the other container's tempos list included *)
RefConstruct ==
    \E c \in Names :
    \E md \in {None, Some(7)} :
    \E te \in {None, Some(1)} \cup
              (IF Built(Other(c)) THEN {Some(music[Other(c)].at.tempos)} ELSE {}) :
    \E tr \in {None, Some(2)} :
        LET args == [NoArgs EXCEPT !.meta_data = md, !.tempos = te, !.tracks = tr]
            r == MusicInitRefs(heap, args)
            passed == {x.val : x \in {y \in {md, te, tr} : y.given}}
        IN  /\ ~Built(c)
            /\ Step(c, r.heap, r.obj,
                    Record("__init__", c, args, "none", own.given \cup passed))

RefAppend ==
    \E c \in Names : \E o \in {1, 3, 5, 6} :
        LET r == MusicAppendRefs(heap, music[c].at, o) IN
        /\ Built(c)
        /\ \A a \in Attributes \ {"meta_data", "timing"} :
              Len(Items(heap, music[c].at[a])) < MaxItems
        /\ Step(c, r.heap, r.obj, Record("append", c, o, r.exc, own.given \cup {o}))

RefSort ==
    \E c \in Names :
        LET r == MusicSortRefs(heap, music[c].at) IN
        /\ Built(c)
        /\ Step(c, r.heap, r.obj, Record("sort", c, <<>>, "none", own.given))

RefRemoveInvalid ==
    \E c \in Names :
        LET r == MusicRemoveInvalidRefs(heap, music[c].at) IN
        /\ Built(c)
        /\ Step(c, r.heap, r.obj, Record("remove_invalid", c, <<>>, "none", own.given))

RefClip ==
    \E c \in Names :
        LET r == MusicClipRefs(heap, music[c].at, 0, 127) IN
        /\ Built(c)
        /\ Step(c, r.heap, r.obj, Record("clip", c, <<0, 127>>, "none", own.given))

RefReset ==
    \E c \in Names :
        LET r == MusicResetRefs(heap, music[c].at) IN
        /\ Built(c)
        /\ Step(c, r.heap, r.obj, Record("reset", c, <<>>, "none", own.given))

RefNext ==
    \/ RefConstruct
    \/ RefAppend
    \/ RefSort
    \/ RefRemoveInvalid
    \/ RefClip
    \/ RefReset

RefSpec == RefInit /\ [][RefNext]_vars

-----------------------------------------------------------------------------
(* Properties of the container under calls (specification Spec) *)

(* The list the documentation of append() assigns to each class *)
ListOf(cls) ==
    CASE cls = "TimeSignature" -> "time_signatures"
      [] cls = "KeySignature" -> "key_signatures"
      [] cls = "Tempo" -> "tempos"
      [] cls = "Lyric" -> "lyrics"
      [] cls = "Annotation" -> "annotations"
      [] cls = "Track" -> "tracks"

AppendClasses == EntityClasses \cup {"Track"}

(* C2: append(x) with x a TimeSignature, KeySignature, Tempo, Lyric,
   Annotation or Track makes x the new last element of the one list that
   matches x's type and leaves every other attribute unchanged; append(x)
   with x of any other type raises a TypeError and changes nothing. *)
C2_AppendRoutesByType ==
    [][last'.op = "append" =>
        IF last'.arg.type \in AppendClasses
        THEN /\ last'.exc = "none"
             /\ self'[ListOf(last'.arg.type)] = Append(self[ListOf(last'.arg.type)], last'.arg)
             /\ \A a \in Attributes \ {ListOf(last'.arg.type)} : self'[a] = self[a]
        ELSE /\ last'.exc = "TypeError"
             /\ self' = self]_vars

(* A Lyric appended to a container that holds a track, downbeats and
   supplied meta_data *)
C2_Witness ==
    /\ last.op = "append"
    /\ last.exc = "none"
    /\ last.arg.type = "Lyric"
    /\ self.lyrics = <<last.arg>>
    /\ self.tracks # <<>>
    /\ self.downbeats # <<>>
    /\ self.meta_data # DefaultMetaData

KeyField(a) == IF a = "time_signatures" THEN "start" ELSE "time"

NonDecreasing(s, field) ==
    \A i \in 1..Len(s) : \A j \in i..Len(s) : s[i][field] <= s[j][field]

WithKey(s, field, k) == Filter(s, {x \in Range(s) : x[field] = k})

(* C4: after sort() each of the five entity lists is non-decreasing in its
   ordering field (start for time_signatures, time for the others) and
   holds the same elements as before, elements of equal key in their
   previous relative order. *)
C4_SortOrdersStably ==
    [][last'.op = "sort" =>
        \A a \in EntityLists :
            /\ NonDecreasing(self'[a], KeyField(a))
            /\ Len(self'[a]) = Len(self[a])
            /\ \A k \in Times :
                  WithKey(self'[a], KeyField(a), k) = WithKey(self[a], KeyField(a), k)]_vars

(* sort() has reordered two time signatures whose order by start is the
   reverse of their order by time *)
C4_Witness ==
    /\ last.op = "sort"
    /\ last.changed
    /\ Len(self.time_signatures) = 2
    /\ self.time_signatures[1].start < self.time_signatures[2].start
    /\ self.time_signatures[1].time > self.time_signatures[2].time

AllValid(s) == \A i \in 1..Len(s) : IsValid(s[i])

(* C5: a remove_invalid() that follows a remove_invalid() changes nothing,
   and after a call every remaining element of the five entity lists passes
   its validate(). *)
C5_RemoveInvalidIdempotent ==
    [][last'.op = "remove_invalid" =>
        /\ last.op = "remove_invalid" => self' = self
        /\ MusicRemoveInvalid(self') = self'
        /\ \A a \in EntityLists : AllValid(self'[a])]_vars

(* remove_invalid() has removed a lyric and left the other *)
C5_Witness ==
    /\ last.op = "remove_invalid"
    /\ last.changed
    /\ Len(self.lyrics) = 1
    /\ self.tracks = <<>>

(* C7: reset() empties tracks and the five entity lists and puts default
   meta_data and timing in place; downbeats is what it was before. *)
C7_ResetKeepsDownbeats ==
    [][last'.op = "reset" =>
        /\ \A a \in EntityLists \cup {"tracks"} : self'[a] = <<>>
        /\ self'.meta_data = DefaultMetaData
        /\ self'.timing = DefaultTimingInfo
        /\ self'.downbeats = self.downbeats]_vars

(* reset() has changed a container with downbeats: the result is not the
   container Music() constructs *)
C7_Witness ==
    /\ last.op = "reset"
    /\ last.changed
    /\ self.downbeats # <<>>
    /\ self # MusicInit(NoArgs)

(* C10: the tracks are the Track objects supplied or appended since the
   last reset, in that order; remove_invalid, sort, clip, transpose and
   validate neither add, drop nor reorder tracks nor change downbeats. *)
C10_TracksKept ==
    [][/\ TrackIds(self'.tracks) = trackLog'
       /\ last'.op \in {"remove_invalid", "sort", "clip", "transpose", "validate"} =>
             /\ TrackIds(self'.tracks) = TrackIds(self.tracks)
             /\ trackLog' = trackLog
             /\ self'.downbeats = self.downbeats]_vars

(* remove_invalid() has pruned a track of a container with two tracks and
   downbeats *)
C10_Witness ==
    /\ last.op = "remove_invalid"
    /\ last.changed
    /\ Len(self.tracks) = 2
    /\ self.time_signatures = <<>> /\ self.key_signatures = <<>> /\ self.tempos = <<>>
    /\ self.lyrics = <<>> /\ self.annotations = <<>>
    /\ self.downbeats # <<>>

-----------------------------------------------------------------------------
(* Properties of to() (specification ToSpec) *)

(* C1: for every target whose lower-cased form is not one of the eight
   supported selectors, to(target) raises a value error naming target and
   invokes no converter. *)
C1_UnsupportedTargetRaises ==
    [][(last'.op = "to" /\ Lower(last'.arg) \notin SupportedTargets) =>
          /\ last'.exc = "ValueError"
          /\ last'.named = last'.arg
          /\ last'.called = "none"]_vars

-----------------------------------------------------------------------------
(* Properties of get_length() (specification LenSpec) *)

FullyPopulated(m) == \A a \in EntityLists \cup {"tracks"} : m[a] # <<>>

(* C3: for a container whose tracks and five time-stamped lists are all
   non-empty, get_length(is_sorted=True) after sort() equals
   get_length(is_sorted=False) before sort(). *)
C3_LengthAgreesAfterSort ==
    [][(last'.op = "sort" /\ FullyPopulated(self)) =>
          MusicGetLength(self', TRUE) = MusicGetLength(self, FALSE)]_vars

-----------------------------------------------------------------------------
(* Properties of validate() (specification ValSpec) *)

(* The class the documentation gives the elements of each attribute *)
ExpectedClass(a) ==
    CASE a = "meta_data" -> "MetaData"
      [] a = "timing" -> "TimingInfo"
      [] a = "time_signatures" -> "TimeSignature"
      [] a = "key_signatures" -> "KeySignature"
      [] a = "tempos" -> "Tempo"
      [] a = "lyrics" -> "Lyric"
      [] a = "annotations" -> "Annotation"
      [] a = "tracks" -> "Track"

(* x is of the wrong type for attribute a, or fails its own validate() *)
BadElement(a, x) == x.type # ExpectedClass(a) \/ ~IsValid(x)

SomethingInvalid(m) ==
    \/ BadElement("meta_data", m.meta_data)
    \/ BadElement("timing", m.timing)
    \/ \E a \in EntityLists \cup {"tracks"} :
          \E i \in 1..Len(m[a]) : BadElement(a, m[a][i])

(* C6: validate() never changes the container, and raises exactly when
   meta_data or timing has the wrong type or fails its own validate(), or
   some element of the five entity lists or of tracks has the wrong type or
   fails its own validate(). *)
C6_ValidateRaisesExactly ==
    [][last'.op = "validate" =>
          /\ self' = self
          /\ (last'.exc # "ok") <=> SomethingInvalid(self)]_vars

(* The checks of validate(), in the order the code makes them *)
CheckOrder ==
    <<"TypeError:meta_data", "TypeError:timing", "Invalid:meta_data",
      "Invalid:timing", "Invalid:time_signatures", "Invalid:key_signatures",
      "Invalid:tempos", "Invalid:lyrics", "Invalid:annotations",
      "Invalid:tracks">>

CheckAttr ==
    <<"meta_data", "timing", "meta_data", "timing", "time_signatures",
      "key_signatures", "tempos", "lyrics", "annotations", "tracks">>

(* Check i, made on its own, raises *)
CheckFails(m, i) ==
    IF i \in {1, 2} THEN m[CheckAttr[i]].type # ExpectedClass(CheckAttr[i])
    ELSE IF i \in {3, 4} THEN ~m[CheckAttr[i]].ok
    ELSE \E k \in 1..Len(m[CheckAttr[i]]) : ~IsValid(m[CheckAttr[i]][k])

FailingChecks(m) == {i \in 1..Len(CheckOrder) : CheckFails(m, i)}

FirstOf(S) == CHOOSE i \in S : \A j \in S : i <= j

(* C9, as the code has it: validate() raises for the first failing check
   in the order type of meta_data, type of timing, meta_data.validate(),
   timing.validate(), then the lists time_signatures, key_signatures,
   tempos, lyrics, annotations, tracks; it returns when no check fails, and
   the outcome does not depend on downbeats. *)
C9_FirstFailingCheckRaises ==
    [][last'.op = "validate" =>
          /\ last'.exc = IF FailingChecks(self) = {} THEN "ok"
                         ELSE CheckOrder[FirstOf(FailingChecks(self))]
          /\ \A db \in {<<>>, <<"x">>, <<3, 1>>} :
                MusicValidate([self EXCEPT !.downbeats = db]) = last'.exc]_vars

(* validate() has raised the type error for timing on a container whose
   meta_data fails its own validate(), whose tempos hold an invalid element
   and whose downbeats hold a non-number *)
C9_Witness ==
    /\ last.op = "validate"
    /\ last.exc = "TypeError:timing"
    /\ self.meta_data.type = "MetaData" /\ ~self.meta_data.ok
    /\ self.timing.type # "TimingInfo"
    /\ \E i \in 1..Len(self.tempos) : ~IsValid(self.tempos[i])
    /\ self.downbeats # <<>>

AttrOrder ==
    <<"meta_data", "timing", "time_signatures", "key_signatures", "tempos",
      "lyrics", "annotations", "tracks">>

(* The attributes some check of validate() fails for *)
InvalidAttrs(m) ==
    {k \in 1..Len(AttrOrder) :
        \E i \in FailingChecks(m) : CheckAttr[i] = AttrOrder[k]}

(* The attribute an error of validate() is about *)
RaisedFor(exc) ==
    CHOOSE a \in Range(AttrOrder) :
        exc \in {"TypeError:" \o a, "Invalid:" \o a}

(* C9, as stated: the error raised is the one for the earliest invalid
   attribute in the order meta_data, timing, time_signatures,
   key_signatures, tempos, lyrics, annotations, tracks, every check of
   meta_data preceding every check of timing. *)
C9_EarliestAttributeRaises ==
    [][(last'.op = "validate" /\ last'.exc # "ok") =>
          RaisedFor(last'.exc) = AttrOrder[FirstOf(InvalidAttrs(self))]]_vars

-----------------------------------------------------------------------------
(* Properties of two containers (specification RefSpec) *)

(* The objects both containers reference *)
Shared(h, mu) ==
    IF mu["a"].built /\ mu["b"].built
    THEN Refs(h, mu["a"].at) \cap Refs(h, mu["b"].at)
    ELSE {}

(* The objects the caller has passed to a constructor or to append, and the
   elements of the lists among them *)
Passed(h, given) ==
    given \cup UNION {Range(h[i].items) : i \in {j \in given : h[j].type = "list"}}

(* The call made in this step was a method call on container c *)
MethodCallOn(c) ==
    /\ own'.n = own.n + 1
    /\ own'.c = c
    /\ own'.op # "__init__"

(* The attributes a call assigns a newly created object to *)
Created(rec) ==
    CASE rec.op = "__init__" ->
            {AttrOf(p) : p \in {q \in Range(ParamOrder) : ~rec.arg[q].given}}
      [] rec.op = "reset" -> Attributes \ {"downbeats"}
      [] rec.op = "remove_invalid" -> EntityLists
      [] OTHER -> {}

(* C8, as stated: no entity object and no sequence object is ever
   referenced by both containers, and a call on one container never changes
   what the other shows. *)
C8_ExclusiveOwnership ==
    [][/\ Shared(heap', music') = {}
       /\ \A c \in Names :
             (MethodCallOn(c) /\ Built(Other(c))) =>
                View(heap', music'[Other(c)].at) = ViewOf(Other(c))]_vars

(* C8, as the code has it: an object is referenced by both containers only
   if the caller passed it, or the list holding it, to a constructor or to
   append; every object the constructor creates for an omitted argument, or
   reset() or remove_invalid() creates, is new, so no other container
   references it; and while the two containers reference no common object,
   a method call on one leaves everything the other shows unchanged. *)
C8_SharedOnlyWhatWasPassed ==
    [][/\ Shared(heap', music') \subseteq Passed(heap', own'.given)
       /\ own'.n = own.n + 1 =>
             \A x \in Created(own'), y \in Created(own') :
                /\ music'[own'.c].at[x] \notin DOMAIN heap
                /\ x # y => music'[own'.c].at[x] # music'[own'.c].at[y]
       /\ \A c \in Names :
             (MethodCallOn(c) /\ Built(Other(c)) /\ Shared(heap, music) = {}) =>
                View(heap', music'[Other(c)].at) = ViewOf(Other(c))]_vars

(* Two containers constructed without arguments reference nothing in
   common, and a tempo appended to the first does not show in the second *)
C8_Witness ==
    /\ own.op = "append" /\ own.exc = "none" /\ own.c = "a"
    /\ Built("a") /\ Built("b")
    /\ Shared(heap, music) = {}
    /\ Len(ViewOf("a").tempos) = 1
    /\ ViewOf("b").tempos = <<>>
    /\ RefsOf("a") \cap CallerIds = {own.arg}
    /\ RefsOf("b") \cap CallerIds = {}

====
